---------------------------- MODULE Spec2Model ----------------------------
(***************************************************************************)
(* Revenue forecasting and scenario engine of z-trades7/folio:             *)
(*   src/revenue_model/forecast_models.py   (RevenueForecaster)            *)
(*   src/revenue_model/scenario_analysis.py (ScenarioAnalyzer)             *)
(*                                                                         *)
(* Reals are exact rationals <<n, d>> (d > 0, lowest terms); <<0, 0>> is   *)
(* NaN and propagates through arithmetic as IEEE NaN does.  The fits of    *)
(* scikit-learn and statsmodels are not part of the repository: their      *)
(* fitted predictors are a fixed function of (model, year) selected by the *)
(* variable lib, so refitting the same data gives the same predictor.      *)
(***************************************************************************)
EXTENDS Integers, Sequences, FiniteSets, TLC

VARIABLES
  df,         \* the historical Revenue column (Year is FirstYear, FirstYear+1, ...)
  lib,        \* selects the library's fitted predictors
  models,     \* RevenueForecaster.models
  forecasts,  \* RevenueForecaster.forecasts
  metrics,    \* RevenueForecaster.metrics
  scenarios,  \* ScenarioAnalyzer.scenarios
  ret,        \* the outcome of the last call: what it returned or raised
  ops,        \* number of calls made so far
  rng,        \* the process-wide numpy generator: [seed, pos]
  tape,       \* the standard-normal stream of each seed, as far as it was drawn
  run,        \* the Monte Carlo invocation of each analysis run
  cwd,        \* the working directory of the stock collector's process
  db,         \* the stock_data table of data/stock_data.db under each directory
  collector   \* the collector: its class, its position in collect_all, its last call

vars == <<df, lib, models, forecasts, metrics, scenarios, ret, ops, rng, tape, run,
          cwd, db, collector>>

---------------------------------------------------------------------------
(* Bounds of the model *)

MaxH == 2
MaxOps == 2
MaxLib == 2
MaxSims == 2
MaxSeedCalls == 1
MaxConcDraws == 2

FirstYear == 2016

Horizons == 0..MaxH

---------------------------------------------------------------------------
(* Exact rational arithmetic with NaN *)

NaN == <<0, 0>>

IsNaN(a) == a[2] = 0

Abs(x) == IF x < 0 THEN -x ELSE x

RECURSIVE GCD(_, _)
GCD(a, b) == IF b = 0 THEN a ELSE GCD(b, a % b)

R(n, d) ==
  IF d = 0 THEN NaN
  ELSE LET g == GCD(Abs(n), Abs(d))
           s == IF d < 0 THEN -1 ELSE 1
       IN  <<(s * n) \div g, (s * d) \div g>>

Num(n) == <<n, 1>>

RAdd(a, b) == IF IsNaN(a) \/ IsNaN(b) THEN NaN ELSE R(a[1] * b[2] + b[1] * a[2], a[2] * b[2])
RSub(a, b) == IF IsNaN(a) \/ IsNaN(b) THEN NaN ELSE R(a[1] * b[2] - b[1] * a[2], a[2] * b[2])
RMul(a, b) == IF IsNaN(a) \/ IsNaN(b) THEN NaN ELSE R(a[1] * b[1], a[2] * b[2])
\* every divisor of the model is a historical value (positive) or a count
RDiv(a, b) == IF IsNaN(a) \/ IsNaN(b) THEN NaN ELSE R(a[1] * b[2], a[2] * b[1])
RAbs(a) == <<Abs(a[1]), a[2]>>

\* IEEE comparisons: false as soon as one side is NaN
RLe(a, b) == ~IsNaN(a) /\ ~IsNaN(b) /\ a[1] * b[2] <= b[1] * a[2]
RLt(a, b) == ~IsNaN(a) /\ ~IsNaN(b) /\ a[1] * b[2] < b[1] * a[2]

RECURSIVE RPow(_, _)
RPow(a, k) == IF k = 0 THEN Num(1) ELSE RMul(a, RPow(a, k - 1))

RECURSIVE IPow(_, _)
IPow(x, k) == IF k = 0 THEN 1 ELSE x * IPow(x, k - 1)

\* the integer whose k-th power is n
IRoot(n, k) == CHOOSE x \in 0..n : IPow(x, k) = n

\* x ** (1/k) for the x >= 0 whose k-th root is rational (the series of
\* SeriesSet are chosen so)
RRoot(a, k) == IF IsNaN(a) THEN NaN ELSE <<IRoot(a[1], k), IRoot(a[2], k)>>

RSqrt(a) == RRoot(a, 2)

RECURSIVE RSum(_)
RSum(s) == IF s = <<>> THEN Num(0) ELSE RAdd(Head(s), RSum(Tail(s)))

\* np.mean / Series.mean: NaN over nothing
RMean(s) == IF s = <<>> THEN NaN ELSE RDiv(RSum(s), Num(Len(s)))

\* Series.std(): the sample standard deviation (ddof = 1), NaN under 2 values
RStd(s) ==
  IF Len(s) < 2 THEN NaN
  ELSE LET m == RMean(s)
           sq == [i \in 1..Len(s) |-> RMul(RSub(s[i], m), RSub(s[i], m))]
       IN  RSqrt(RDiv(RSum(sq), Num(Len(s) - 1)))

\* round(x * 100) to the nearest integer, ties to even: the digits of '.2f'
Hundredths(a) ==
  LET n == a[1] * 100
      q == n \div a[2]
      r2 == 2 * (n % a[2])
  IN  IF r2 < a[2] THEN q
      ELSE IF r2 > a[2] THEN q + 1
      ELSE IF q % 2 = 0 THEN q ELSE q + 1

\* f'{x:.2f}'
Fmt2(a) ==
  IF IsNaN(a) THEN "nan"
  ELSE LET h == Hundredths(a)
           m == Abs(h)
           frac == m % 100
       IN  (IF a[1] < 0 THEN "-" ELSE "") \o ToString(m \div 100) \o "."
             \o (IF frac < 10 THEN "0" ELSE "") \o ToString(frac)

---------------------------------------------------------------------------
(* Maps (Python dicts) *)

EmptyMap == [x \in {} |-> 0]

Put(m, k, v) == [x \in (DOMAIN m) \cup {k} |-> IF x = k THEN v ELSE m[x]]

---------------------------------------------------------------------------
(* The historical series *)

SeriesSet ==
  { <<5>>, <<2, 4>>, <<1, 2, 4>>, <<8, 4, 2, 1>>, <<1, 1, 1, 1, 16>>,
    <<6, 3, 5, 5, 6>> }

Revenue == [i \in 1..Len(df) |-> Num(df[i])]

LastYear == FirstYear + Len(df) - 1

\* a faulty variant: the years start at the last observed year
future_years_FromLast(H) == [i \in 1..H |-> LastYear + i - 1]

\* np.arange(Year.max() + 1, Year.max() + years_ahead + 1)
future_years(H) == [i \in 1..H |-> LastYear + i]

\* Series.pct_change().dropna()
pct_change(s) == [i \in 1..(Len(s) - 1) |-> RSub(RDiv(s[i + 1], s[i]), Num(1))]

\* s[-k:]
LastK(s, k) == IF Len(s) <= k THEN s ELSE SubSeq(s, Len(s) - k + 1, Len(s))

\* pd.DataFrame({'Year': years, 'Forecast': values}); a scalar is broadcast,
\* arrays of different lengths raise ValueError
FrameOK(years, values) == Len(values) = Len(years)
Frame(years, values) == [Year |-> years, Forecast |-> values]

---------------------------------------------------------------------------
(* RevenueForecaster.  A forecaster state fs is the record                 *)
(* [models, forecasts, metrics, err, log, out]: the three maps, the        *)
(* exception in flight (NoErr when none), the methods entered so far in    *)
(* this call, and the value the last method returned.                      *)

NoErr == "none"

Enter(fs, name) == [fs EXCEPT !.log = Append(@, name)]
Raise(fs, e) == [fs EXCEPT !.err = e]

\* sklearn's r2_score: 1 - SS_res / SS_tot; nan under 2 samples; 1 or 0 when
\* SS_tot = 0
R2Score(y, e) ==
  LET n == Len(y)
  IN  IF n < 2 THEN NaN
      ELSE CHOOSE r \in
        { IF sstot = Num(0) THEN (IF ssres = Num(0) THEN Num(1) ELSE Num(0))
          ELSE RSub(Num(1), RDiv(ssres, sstot)) :
          sstot \in { CHOOSE t \in
                        { RSum([i \in 1..n |-> RMul(RSub(y[i], ybar), RSub(y[i], ybar))]) :
                          ybar \in {RMean(y)} } : TRUE },
          ssres \in { RSum([i \in 1..n |-> RMul(e[i], e[i])]) } } : TRUE

\* a faulty variant: the absolute errors are not divided by y_true
ErrorMetrics_AbsoluteMape(y, e) ==
  LET n == Len(y)
  IN  [MAE |-> RMean([i \in 1..n |-> RAbs(e[i])]),
       RMSE |-> RSqrt(RMean([i \in 1..n |-> RMul(e[i], e[i])])),
       MAPE |-> RMul(RMean([i \in 1..n |-> RAbs(e[i])]), Num(100)),
       R2 |-> R2Score(y, e)]

\* mean_absolute_error, mean_squared_error, np.sqrt, MAPE, r2_score of the
\* errors e = y_true - y_pred
ErrorMetrics(y, e) ==
  LET n == Len(y)
  IN  [MAE |-> RMean([i \in 1..n |-> RAbs(e[i])]),
       RMSE |-> RSqrt(RMean([i \in 1..n |-> RMul(e[i], e[i])])),
       MAPE |-> RMul(RMean([i \in 1..n |-> RAbs(RDiv(e[i], y[i]))]), Num(100)),
       R2 |-> R2Score(y, e)]

MetricsOf(y_true, y_pred) ==
  CHOOSE r \in
    { CHOOSE m \in { ErrorMetrics(y, e) :
                       e \in {[i \in 1..Len(y) |-> RSub(y[i], p[i])]} } : TRUE :
      y \in {y_true}, p \in {y_pred} } : TRUE

calculate_metrics(fs, y_true, y_pred, model_name) ==
  CHOOSE r \in
    { [fs EXCEPT !.metrics = Put(@, model_name, m), !.out = m] :
      m \in {MetricsOf(y_true, y_pred)} } : TRUE

\* The library's fitted models, in the order run_all_models fits them
LibRank(m) ==
  CASE m = "Linear Regression" -> 1
    [] m = "Polynomial_2" -> 2
    [] m = "Polynomial_3" -> 3
    [] m = "Exponential Smoothing" -> 4
    [] m = "Random Forest" -> 5
    [] m = "Gradient Boosting" -> 6

IsTree(m) == m \in {"Random Forest", "Gradient Boosting"}

\* model.predict(X) on the training years: the fit misses each observation
\* by the same amount, alternately above and below
LibFitted(m) ==
  [k \in 1..Len(df) |->
     RAdd(Revenue[k], R((IF k % 2 = 0 THEN 1 ELSE -1) * (LibRank(m) + lib - 1), 8))]

\* model.predict(future_years): a tree continues its boundary leaf flat, the
\* regressions and Holt's method continue a trend
LibPredict(m, H) ==
  [i \in 1..H |->
     IF IsTree(m) THEN RSub(Revenue[Len(df)], R(lib * (LibRank(m) - 4), 2))
     ELSE RAdd(Revenue[Len(df)], Num(lib * LibRank(m) * i))]

\* What the libraries refuse: scikit-learn's predict on an empty array of
\* future years, statsmodels' forecast of no step, and Holt's initial trend
\* of a single observation
LibRaises(m, H) ==
  IF m = "Exponential Smoothing" /\ Len(df) < 2 THEN "IndexError"
  ELSE IF H = 0 THEN "ValueError"
  ELSE NoErr

\* linear_regression_forecast, polynomial_regression_forecast,
\* exponential_smoothing_forecast, random_forest_forecast,
\* gradient_boosting_forecast: fit, predict, record the metrics under
\* metrics_name, store the model and the forecast under m
LibForecast(fs, m, metrics_name, H) ==
  LET s0 == Enter(fs, m)
      e == LibRaises(m, H)
  IN  IF e # NoErr THEN Raise(s0, e)
      ELSE LET s1 == calculate_metrics(s0, Revenue, LibFitted(m), metrics_name)
               fr == Frame(future_years(H), LibPredict(m, H))
           IN  [s1 EXCEPT !.models = Put(@, m, lib),
                          !.forecasts = Put(@, m, fr),
                          !.out = fr]

linear_regression_forecast(fs, H) ==
  LibForecast(fs, "Linear Regression", "Linear Regression", H)

polynomial_regression_forecast(fs, degree, H) ==
  LibForecast(fs, "Polynomial_" \o ToString(degree),
              "Polynomial (degree " \o ToString(degree) \o ")", H)

exponential_smoothing_forecast(fs, H) ==
  LibForecast(fs, "Exponential Smoothing", "Exponential Smoothing", H)

random_forest_forecast(fs, H) ==
  LibForecast(fs, "Random Forest", "Random Forest", H)

gradient_boosting_forecast(fs, H) ==
  LibForecast(fs, "Gradient Boosting", "Gradient Boosting", H)

\* a faulty variant: the total growth, never annualised
Cagr_Total == RSub(RDiv(Revenue[Len(df)], Revenue[1]), Num(1))

\* (revenues[-1] / revenues[0]) ** (1/n_years) - 1
Cagr == RSub(RRoot(RDiv(Revenue[Len(df)], Revenue[1]), Len(df) - 1), Num(1))

\* the mean of the year-over-year changes among the last 3 observations
RecentGrowth == RMean(pct_change(LastK(Revenue, 3)))

GrowthName(method, growth_rate) ==
  "Growth Rate (" \o (IF method = "cagr" THEN "CAGR" ELSE "RECENT") \o "): "
    \o Fmt2(RMul(growth_rate, Num(100))) \o "%"

\* last_revenue * (1 + growth_rate) ** i for i = 1..years_ahead
Compound(growth_rate, H) ==
  [i \in 1..H |-> RMul(Revenue[Len(df)], RPow(RAdd(Num(1), growth_rate), i))]

growth_rate_forecast(fs, H, method) ==
  LET s0 == Enter(fs, "growth_rate_forecast:" \o method)
  IN  IF method = "cagr" /\ Len(df) = 1 THEN Raise(s0, "ZeroDivisionError")
      ELSE IF method \notin {"cagr", "recent"} THEN Raise(s0, "UnboundLocalError")
      ELSE LET g == IF method = "cagr" THEN Cagr ELSE RecentGrowth
               fr == Frame(future_years(H), Compound(g, H))
           IN  [s0 EXCEPT !.forecasts = Put(@, GrowthName(method, g), fr),
                          !.out = <<fr, g>>]

DefaultEnsemble == <<"Polynomial_2", "Exponential Smoothing", "Gradient Boosting">>

\* models_to_use: None, or a list of names
UseDefault == [none |-> TRUE, names |-> <<>>]
Use(names) == [none |-> FALSE, names |-> names]

\* np.mean(forecast_values, axis=0): the mean over the arrays, year by year;
\* nan over no array; ValueError over arrays of different lengths
SameLength(vals) == \A i, j \in 1..Len(vals) : Len(vals[i]) = Len(vals[j])
\* a faulty variant: the sum over the arrays, never divided by their number
MeanAxis0_Sum(vals) ==
  [y \in 1..Len(vals[1]) |-> RSum([k \in 1..Len(vals) |-> vals[k][y]])]

MeanAxis0(vals) ==
  [y \in 1..Len(vals[1]) |-> RMean([k \in 1..Len(vals) |-> vals[k][y]])]

\* the values of the named forecasts that exist, in the order named
RECURSIVE Present(_, _)
Present(fc, use) ==
  IF use = <<>> THEN <<>>
  ELSE (IF Head(use) \in DOMAIN fc THEN <<fc[Head(use)].Forecast>> ELSE <<>>)
         \o Present(fc, Tail(use))

\* a faulty variant: the ensemble is returned but never stored
Average_ReturnOnly(fs, H, use) ==
  LET forecast_values == Present(fs.forecasts, use)
      years == future_years(H)
  IN  IF forecast_values = <<>>
      THEN [fs EXCEPT !.out = Frame(years, [i \in 1..H |-> NaN])]
      ELSE IF ~SameLength(forecast_values) THEN Raise(fs, "ValueError")
      ELSE LET mean == MeanAxis0(forecast_values)
           IN  IF ~FrameOK(years, mean) THEN Raise(fs, "ValueError")
               ELSE [fs EXCEPT !.out = Frame(years, mean)]

\* the ensemble of the forecasts fs holds (fs is past the check of line 221)
Average(fs, H, use) ==
  LET forecast_values == Present(fs.forecasts, use)
      years == future_years(H)
  IN  IF forecast_values = <<>>
      THEN LET fr == Frame(years, [i \in 1..H |-> NaN])
           IN  [fs EXCEPT !.forecasts = Put(@, "Ensemble", fr), !.out = fr]
      ELSE IF ~SameLength(forecast_values) THEN Raise(fs, "ValueError")
      ELSE LET mean == MeanAxis0(forecast_values)
           IN  IF ~FrameOK(years, mean) THEN Raise(fs, "ValueError")
               ELSE [fs EXCEPT !.forecasts = Put(@, "Ensemble", Frame(years, mean)),
                               !.out = Frame(years, mean)]

\* The steps of run_all_models, in order
Catalogue ==
  << "linear", "poly2", "poly3", "smoothing", "cagr", "recent", "forest",
     "boosting", "ensemble" >>

RECURSIVE ensemble_forecast(_, _, _)
RECURSIVE RunSteps(_, _, _)

\* an exception raised by one step leaves run_all_models at once
run_all_models(fs, H) ==
  CHOOSE r \in { IF s.err # NoErr THEN s ELSE [s EXCEPT !.out = "None"] :
                 s \in {RunSteps(Enter(fs, "run_all_models"), H, Catalogue)} } : TRUE

Step(fs, H, step) ==
  CASE step = "linear" -> linear_regression_forecast(fs, H)
    [] step = "poly2" -> polynomial_regression_forecast(fs, 2, H)
    [] step = "poly3" -> polynomial_regression_forecast(fs, 3, H)
    [] step = "smoothing" -> exponential_smoothing_forecast(fs, H)
    [] step = "cagr" -> growth_rate_forecast(fs, H, "cagr")
    [] step = "recent" -> growth_rate_forecast(fs, H, "recent")
    [] step = "forest" -> random_forest_forecast(fs, H)
    [] step = "boosting" -> gradient_boosting_forecast(fs, H)
    [] step = "ensemble" -> ensemble_forecast(fs, H, UseDefault)

RunSteps(fs, H, steps) ==
  IF steps = <<>> THEN fs
  ELSE CHOOSE r \in { IF s.err # NoErr THEN s ELSE RunSteps(s, H, Tail(steps)) :
                      s \in {Step(fs, H, Head(steps))} } : TRUE

ensemble_forecast(fs, H, models_to_use) ==
  LET use == IF models_to_use.none THEN DefaultEnsemble ELSE models_to_use.names
  IN  CHOOSE r \in
        { IF s.err # NoErr THEN s ELSE Average(s, H, use) :
          s \in { IF fs.forecasts = EmptyMap
                  THEN run_all_models(Enter(fs, "ensemble_forecast"), H)
                  ELSE Enter(fs, "ensemble_forecast") } } : TRUE

\* a faulty variant: the highest MAPE first (ascending=False)
RECURSIVE SortByMAPE_Desc(_, _)
SortByMAPE_Desc(m, names) ==
  IF names = {} THEN <<>>
  ELSE LET worst == CHOOSE a \in names : \A b \in names : RLe(m[b].MAPE, m[a].MAPE)
       IN  <<worst>> \o SortByMAPE_Desc(m, names \ {worst})

\* DataFrame(metrics).T.sort_values('MAPE'): the model names by ascending MAPE
RECURSIVE SortByMAPE(_, _)
SortByMAPE(m, names) ==
  IF names = {} THEN <<>>
  ELSE LET best == CHOOSE a \in names : \A b \in names : RLe(m[a].MAPE, m[b].MAPE)
       IN  <<best>> \o SortByMAPE(m, names \ {best})

get_metrics_summary(fs) ==
  LET s0 == Enter(fs, "get_metrics_summary")
  IN  IF s0.metrics = EmptyMap THEN [s0 EXCEPT !.out = <<>>]
      ELSE [s0 EXCEPT !.out = SortByMAPE(s0.metrics, DOMAIN s0.metrics)]

---------------------------------------------------------------------------
(* ScenarioAnalyzer.  An analyzer state as is the record                   *)
(* [scenarios, err, log, out].                                             *)

\* growth_rates = pct_change().dropna(); (growth_rates.mean(), growth_rates.std())
calculate_volatility ==
  LET growth_rates == pct_change(Revenue)
  IN  [mean_growth |-> RMean(growth_rates), volatility |-> RStd(growth_rates)]

ScenarioNames == <<"Bull", "Base", "Bear">>

\* a faulty variant: Bear at 160% of the historical mean instead of 60%
ScenarioRate_BearAbove(name) ==
  CASE name = "Bull" -> RMul(RMean(pct_change(LastK(Revenue, 3))), R(85, 100))
    [] name = "Base" -> RMul(calculate_volatility.mean_growth, R(12, 10))
    [] name = "Bear" -> RMul(calculate_volatility.mean_growth, R(16, 10))

\* a faulty variant: Bull taken from the historical mean, not the recent growth
ScenarioRate_BullFromMean(name) ==
  CASE name = "Bull" -> RMul(calculate_volatility.mean_growth, R(85, 100))
    [] name = "Base" -> RMul(calculate_volatility.mean_growth, R(12, 10))
    [] name = "Bear" -> RMul(calculate_volatility.mean_growth, R(6, 10))

ScenarioRate(name) ==
  CASE name = "Bull" -> RMul(RecentGrowth, R(85, 100))
    [] name = "Base" -> RMul(calculate_volatility.mean_growth, R(12, 10))
    [] name = "Bear" -> RMul(calculate_volatility.mean_growth, R(6, 10))

ScenarioDescription(name) ==
  CASE name = "Bull" -> "AI demand continues strong, market share expands"
    [] name = "Base" -> "Steady AI adoption, competitive market"
    [] name = "Bear" -> "Market saturation, increased competition"

\* a faulty variant: every year grows from the starting value (current_revenue
\* is never carried over)
CompoundPath_Flat(start, growths) ==
  [i \in 1..Len(growths) |-> RMul(start, RAdd(Num(1), growths[i]))]

\* current_revenue = current_revenue * (1 + growth_rate), once per year
RECURSIVE CompoundPath(_, _)
CompoundPath(start, growths) ==
  IF growths = <<>> THEN <<>>
  ELSE LET cur == RMul(start, RAdd(Num(1), Head(growths)))
       IN  <<cur>> \o CompoundPath(cur, Tail(growths))

ScenarioOf(name, H) ==
  [years |-> future_years(H),
   forecast |-> CompoundPath(Revenue[Len(df)], [i \in 1..H |-> ScenarioRate(name)]),
   growth_rate |-> ScenarioRate(name),
   description |-> ScenarioDescription(name)]

\* every call overwrites the three entries of self.scenarios and returns
\* self.scenarios itself
generate_scenarios(as, H) ==
  LET s0 == Enter(as, "generate_scenarios")
      sc == [n \in {"Bull", "Base", "Bear"} |-> ScenarioOf(n, H)]
  IN  [s0 EXCEPT !.scenarios = sc, !.out = sc]

SummaryRow(name, data, H) ==
  [Scenario |-> name,
   Label |-> ToString(H) \o "Y Revenue",
   Revenue |-> "$" \o Fmt2(data.forecast[Len(data.forecast)]) \o "B",
   AvgGrowthRate |-> Fmt2(RMul(data.growth_rate, Num(100))) \o "%",
   Description |-> data.description]

\* data['forecast'][-1] of an empty array raises IndexError
Summarise(as, H) ==
  IF \E n \in DOMAIN as.scenarios : as.scenarios[n].forecast = <<>>
  THEN Raise(as, "IndexError")
  ELSE [as EXCEPT !.out = [i \in 1..3 |->
          SummaryRow(ScenarioNames[i], as.scenarios[ScenarioNames[i]], H)]]

get_summary(as, H) ==
  CHOOSE r \in
    { Summarise(s, H) :
      s \in { IF as.scenarios = EmptyMap
              THEN generate_scenarios(Enter(as, "get_summary"), H)
              ELSE Enter(as, "get_summary") } } : TRUE

---------------------------------------------------------------------------
(* One analysis run: calls on its RevenueForecaster and ScenarioAnalyzer   *)

\* np.arange(-0.10, 0.61, 0.05): the rates k/20 for k = -2 .. 12
GrowthGrid == [i \in 1..15 |-> R(i - 3, 20)]

\* sensitivity_analysis: one row per grid rate, from the last revenue alone;
\* it calls calculate_volatility and drops the result, and touches no field
sensitivity_analysis(as, H) ==
  LET s0 == Enter(as, "sensitivity_analysis")
      last_revenue == Revenue[Len(Revenue)]
      final(g) == RMul(last_revenue, RPow(RAdd(Num(1), g), H))
  IN  [s0 EXCEPT !.out =
         [i \in 1..Len(GrowthGrid) |->
            [growth_rate |-> RMul(GrowthGrid[i], Num(100)),
             column |-> "revenue_" \o ToString(H) \o "y",
             revenue |-> final(GrowthGrid[i]),
             total_growth |-> RMul(RSub(RDiv(final(GrowthGrid[i]), last_revenue), Num(1)),
                                   Num(100))]]]

FS == [models |-> models, forecasts |-> forecasts, metrics |-> metrics,
       err |-> NoErr, log |-> <<>>, out |-> "None"]

AS == [scenarios |-> scenarios, err |-> NoErr, log |-> <<>>, out |-> "None"]

Returned(op, H, arg, s) ==
  [op |-> op, H |-> H, arg |-> arg, err |-> s.err, log |-> s.log,
   out |-> IF s.err = NoErr THEN s.out ELSE "None"]

\* What the caller reads now in the object the call of outcome r returned,
\* when the analyzer's map is sc.  generate_scenarios returns the dict
\* self.scenarios itself (line 71), which later calls write into; every
\* other call returns an object that no later call writes into (a model call
\* binds a new DataFrame to its key and leaves the old one alone).
SeenIn(r, sc) == IF r.op = "generate_scenarios" THEN sc ELSE r.out

NoCall == [op |-> "none", H |-> 0, arg |-> "None", err |-> NoErr, log |-> <<>>, out |-> "None"]

ForecasterCall(op, H, arg, s) ==
  /\ ops' = ops + 1
  /\ models' = s.models
  /\ forecasts' = s.forecasts
  /\ metrics' = s.metrics
  /\ ret' = Returned(op, H, arg, s)
  /\ UNCHANGED <<df, lib, scenarios, rng, tape, run, cwd, db, collector>>

\* a faulty variant: an analyzer call that empties the forecaster's forecasts
AnalyzerCall_ClearsForecasts(op, H, arg, s) ==
  /\ ops' = ops + 1
  /\ scenarios' = s.scenarios
  /\ forecasts' = EmptyMap
  /\ ret' = Returned(op, H, arg, s)
  /\ UNCHANGED <<df, lib, models, metrics, rng, tape, run, cwd, db, collector>>

AnalyzerCall(op, H, arg, s) ==
  /\ ops' = ops + 1
  /\ scenarios' = s.scenarios
  /\ ret' = Returned(op, H, arg, s)
  /\ UNCHANGED <<df, lib, models, forecasts, metrics, rng, tape, run, cwd, db, collector>>

LinearRegressionForecast(H) ==
  ops < MaxOps /\ \E s \in {linear_regression_forecast(FS, H)} :
    ForecasterCall("linear_regression_forecast", H, "None", s)

PolynomialRegressionForecast(degree, H) ==
  ops < MaxOps /\ \E s \in {polynomial_regression_forecast(FS, degree, H)} :
    ForecasterCall("polynomial_regression_forecast", H, degree, s)

ExponentialSmoothingForecast(H) ==
  ops < MaxOps /\ \E s \in {exponential_smoothing_forecast(FS, H)} :
    ForecasterCall("exponential_smoothing_forecast", H, "None", s)

GrowthRateForecast(H, method) ==
  ops < MaxOps /\ \E s \in {growth_rate_forecast(FS, H, method)} :
    ForecasterCall("growth_rate_forecast", H, method, s)

RandomForestForecast(H) ==
  ops < MaxOps /\ \E s \in {random_forest_forecast(FS, H)} :
    ForecasterCall("random_forest_forecast", H, "None", s)

GradientBoostingForecast(H) ==
  ops < MaxOps /\ \E s \in {gradient_boosting_forecast(FS, H)} :
    ForecasterCall("gradient_boosting_forecast", H, "None", s)

\* the lists of names a caller passes as models_to_use
UseChoices ==
  { UseDefault,
    Use(<<"Linear Regression", "Random Forest">>),
    Use(<<"Linear Regression", "Linear Regression", "Random Forest">>),
    Use(<<"Linear Regression", "Bogus">>),
    Use(<<"Ensemble", "Random Forest">>),
    Use(<<"Bogus">>),
    Use(<<>>) }

EnsembleForecast(H, models_to_use) ==
  ops < MaxOps /\ \E s \in {ensemble_forecast(FS, H, models_to_use)} :
    ForecasterCall("ensemble_forecast", H, models_to_use, s)

RunAllModels(H) ==
  ops < MaxOps /\ \E s \in {run_all_models(FS, H)} : ForecasterCall("run_all_models", H, "None", s)

GetMetricsSummary ==
  ops < MaxOps /\ \E s \in {get_metrics_summary(FS)} : ForecasterCall("get_metrics_summary", 0, "None", s)

GenerateScenarios(H) ==
  ops < MaxOps /\ \E s \in {generate_scenarios(AS, H)} : AnalyzerCall("generate_scenarios", H, "None", s)

GetSummary(H) ==
  ops < MaxOps /\ \E s \in {get_summary(AS, H)} : AnalyzerCall("get_summary", H, "None", s)

SensitivityAnalysis(H) ==
  ops < MaxOps /\ \E s \in {sensitivity_analysis(AS, H)} :
    AnalyzerCall("sensitivity_analysis", H, "None", s)

Methods == {"cagr", "recent", "median"}

(* stock_data_system: the two collectors and the daily scheduler.  The    *)
(* network, git and the file system are the environment: every response   *)
(* and every outcome of a git command is possible at every call.          *)

MaxSymbols == 2
MaxBars == 2
MaxCollections == 2

\* config.SYMBOLS, and the part of it the collectors iterate over here
AllSymbols == <<"SPY", "QQQ", "AAPL", "MSFT", "GOOGL", "TSLA", "NVDA", "AMZN">>
SYMBOLS == SubSeq(AllSymbols, 1, MaxSymbols)

\* the directory the script was started in, and
\* os.path.abspath(os.path.join(os.path.dirname(__file__), '..'))
script_dir == "stock_data_system"
project_root == "project_root"
Dirs == {script_dir, project_root}

Incremental == "IncrementalStockCollector"
Polygon == "PolygonStockCollector"
Kinds == {Incremental, Polygon}

\* a bar of the API: 't' in milliseconds; ok is FALSE for a bar with a
\* missing or malformed field, on which the conversions of the INSERT raise
Bars == [t : {1000, 1500, 2000}, ok : {TRUE}] \cup [t : {1000}, ok : {FALSE}]
BarSeqs == UNION { [1..n -> Bars] : n \in 0..MaxBars }

\* what requests.get does: it raises, or answers with a status code and a body
Responses ==
  {[code |-> 0, status |-> "raised", results |-> <<>>],
   [code |-> 500, status |-> "ERROR", results |-> <<>>]}
  \cup [code : {200}, status : {"OK", "DELAYED", "ERROR"}, results : BarSeqs]

\* datetime.fromtimestamp(t / 1000).strftime('%Y-%m-%d %H:%M:%S'): the second
Stamp(t) == t \div 1000

\* the statuses under which the results are taken
Accepted(kind) == IF kind = Polygon THEN {"OK", "DELAYED"} ELSE {"OK"}

fetch_aggregates(kind, response) ==
  IF response.status = "raised" THEN <<>>
  ELSE IF response.code = 200
       THEN IF response.status \in Accepted(kind) /\ Len(response.results) > 0
            THEN response.results
            ELSE <<>>
       ELSE <<>>

\* one pass of the loop over results: INSERT OR IGNORE of the bar's row.
\* IncrementalStockCollector counts a bar when cursor.rowcount > 0;
\* PolygonStockCollector counts every INSERT that did not raise.
StoreBar(kind, acc, symbol, bar) ==
  IF ~bar.ok
  THEN acc
  ELSE LET row == <<symbol, Stamp(bar.t)>>
       IN  IF kind = Incremental
           THEN IF row \in acc.table
                THEN acc
                ELSE [table |-> acc.table \cup {row},
                      records_added |-> acc.records_added + 1]
           ELSE [table |-> acc.table \cup {row},
                 records_added |-> acc.records_added + 1]

RECURSIVE StoreBars(_, _, _, _, _)
StoreBars(kind, acc, symbol, results, k) ==
  IF k > Len(results)
  THEN acc
  ELSE StoreBars(kind, StoreBar(kind, acc, symbol, results[k]), symbol, results, k + 1)

\* collect_symbol: the table it leaves and the number it returns.  When
\* sqlite3.connect raises (db_opens = FALSE), in get_last_timestamp or before
\* the loop, the outer handler returns 0; so it does when nothing was fetched.
collect_symbol(kind, table, symbol, response, db_opens) ==
  LET results == fetch_aggregates(kind, response)
  IN  IF ~db_opens \/ results = <<>>
      THEN [table |-> table, records_added |-> 0]
      ELSE StoreBars(kind, [table |-> table, records_added |-> 0], symbol, results, 1)

\* enumerate(config.SYMBOLS, 1)
Enumerate_Reversed(symbols) ==
  [i \in 1..Len(symbols) |-> <<i, symbols[Len(symbols) + 1 - i]>>]

Enumerate(symbols) == [i \in 1..Len(symbols) |-> <<i, symbols[i]>>]

\* what can happen inside git_push_changes
GitOutcomes == {"chdir raised", "nothing to push", "pushed", "timeout", "git error", "other"}

\* git_push_changes: the working directory it leaves and what it returns
git_push_changes(dir, outcome) ==
  CASE outcome = "chdir raised"    -> [cwd |-> dir, ret |-> "False"]
    [] outcome = "nothing to push" -> [cwd |-> project_root, ret |-> "True"]
    [] outcome = "pushed"          -> [cwd |-> dir, ret |-> "True"]
    [] outcome = "timeout"         -> [cwd |-> dir, ret |-> "False"]
    [] outcome = "git error"       -> [cwd |-> dir, ret |-> "False"]
    [] outcome = "other"           -> [cwd |-> dir, ret |-> "False"]

NoCollector ==
  [kind |-> "None", pc |-> "idle", i |-> 0, total |-> 0, trace |-> <<>>, runs |-> 0,
   op |-> "none", symbol |-> "None", failed |-> FALSE, ret |-> 0, inserted |-> 0,
   pushed |-> "None", json |-> "None"]

NoCollection ==
  /\ cwd = script_dir
  /\ db = [d \in Dirs |-> {}]
  /\ collector = NoCollector

---------------------------------------------------------------------------

NoRuns == <<>>

Init ==
  /\ df \in SeriesSet
  /\ lib \in 1..MaxLib
  /\ models = EmptyMap
  /\ forecasts = EmptyMap
  /\ metrics = EmptyMap
  /\ scenarios = EmptyMap
  /\ ret = NoCall
  /\ ops = 0
  /\ rng = "None"
  /\ tape = <<>>
  /\ run = NoRuns
  /\ NoCollection

Next ==
  \/ \E H \in Horizons : LinearRegressionForecast(H)
  \/ \E H \in Horizons, degree \in {2, 3} : PolynomialRegressionForecast(degree, H)
  \/ \E H \in Horizons : ExponentialSmoothingForecast(H)
  \/ \E H \in Horizons, method \in Methods : GrowthRateForecast(H, method)
  \/ \E H \in Horizons : RandomForestForecast(H)
  \/ \E H \in Horizons : GradientBoostingForecast(H)
  \/ \E H \in Horizons, use \in UseChoices : EnsembleForecast(H, use)
  \/ \E H \in Horizons : RunAllModels(H)
  \/ GetMetricsSummary
  \/ \E H \in Horizons : GenerateScenarios(H)
  \/ \E H \in Horizons : GetSummary(H)
  \/ \E H \in Horizons : SensitivityAnalysis(H)

Spec == Init /\ [][Next]_vars

---------------------------------------------------------------------------
(* ScenarioAnalyzer.monte_carlo_simulation.  np.random is one generator    *)
(* for the whole process: rng is its state, the seed it was last seeded    *)
(* with and the number of draws since; tape[s] is the stream of standard   *)
(* normals that seed s yields, revealed draw by draw.  Each analysis run   *)
(* (its own ScenarioAnalyzer, on its own thread) makes one invocation; an  *)
(* invocation is a sequence of steps, one per draw, so that the draws of   *)
(* two runs can interleave.                                                *)

\* the seeds the driver may pass to np.random.seed; seed 0 stands for the
\* entropy numpy seeds the generator with at import
Seeds == {1, 2}
Runs == {1, 2}
ZSet == {Num(-1), Num(1)}

Idle == [pc |-> "idle"]

\* np.zeros((n_simulations, years_ahead))
Zeros(S, H) == [i \in 1..S |-> [j \in 1..H |-> Num(0)]]

\* insertion of x into the ascending sequence s
RECURSIVE Insert(_, _)
Insert(x, s) ==
  IF s = <<>> THEN <<x>>
  ELSE IF RLe(x, Head(s)) THEN <<x>> \o s
  ELSE <<Head(s)>> \o Insert(x, Tail(s))

RECURSIVE Sorted(_)
Sorted(s) == IF s = <<>> THEN <<>> ELSE Insert(Head(s), Sorted(Tail(s)))

HasNaN(s) == \E i \in 1..Len(s) : IsNaN(s[i])

\* np.percentile(column, q) with linear interpolation between the two
\* nearest ranks of the sorted column; nan if the column holds a nan
Percentile(col, q) ==
  IF HasNaN(col) THEN NaN
  ELSE LET a == Sorted(col)
           n == Len(col)
           lo == ((n - 1) * q) \div 100
           gamma == R(((n - 1) * q) % 100, 100)
           hi == IF lo + 1 < n THEN lo + 1 ELSE n - 1
       IN  RAdd(a[lo + 1], RMul(gamma, RSub(a[hi + 1], a[lo + 1])))

\* np.median(column): the middle of the sorted column, the mean of the two
\* middle values when their number is even
Median(col) ==
  IF HasNaN(col) THEN NaN
  ELSE LET a == Sorted(col)
           n == Len(col)
       IN  IF n % 2 = 1 THEN a[(n + 1) \div 2]
           ELSE RDiv(RAdd(a[n \div 2], a[n \div 2 + 1]), Num(2))

Column(simulations, y) == [i \in 1..Len(simulations) |-> simulations[i][y]]

\* a faulty variant: the mean taken over the whole matrix (axis=0 forgotten)
Bundle_MeanOfAll(simulations, H) ==
  [years |-> future_years(H),
   median |-> [y \in 1..H |-> Median(Column(simulations, y))],
   mean |-> [y \in 1..H |->
               RMean([k \in 1..(Len(simulations) * H) |->
                        simulations[((k - 1) \div H) + 1][((k - 1) % H) + 1]])],
   p10 |-> [y \in 1..H |-> Percentile(Column(simulations, y), 10)],
   p25 |-> [y \in 1..H |-> Percentile(Column(simulations, y), 25)],
   p75 |-> [y \in 1..H |-> Percentile(Column(simulations, y), 75)],
   p90 |-> [y \in 1..H |-> Percentile(Column(simulations, y), 90)],
   all_simulations |-> simulations]

\* the result bundle of lines 95-104 over at least one simulation
Bundle(simulations, H) ==
  [years |-> future_years(H),
   median |-> [y \in 1..H |-> Median(Column(simulations, y))],
   mean |-> [y \in 1..H |-> RMean(Column(simulations, y))],
   p10 |-> [y \in 1..H |-> Percentile(Column(simulations, y), 10)],
   p25 |-> [y \in 1..H |-> Percentile(Column(simulations, y), 25)],
   p75 |-> [y \in 1..H |-> Percentile(Column(simulations, y), 75)],
   p90 |-> [y \in 1..H |-> Percentile(Column(simulations, y), 90)],
   all_simulations |-> simulations]

\* over no simulation np.median and np.mean give nan for every year
EmptyBundle(H) ==
  [years |-> future_years(H),
   median |-> [y \in 1..H |-> NaN],
   mean |-> [y \in 1..H |-> NaN],
   p10 |-> [y \in 1..H |-> NaN],
   p25 |-> [y \in 1..H |-> NaN],
   p75 |-> [y \in 1..H |-> NaN],
   p90 |-> [y \in 1..H |-> NaN],
   all_simulations |-> <<>>]

\* np.random.normal(mean_growth, volatility) from the standard normal z
Normal(mean_growth, volatility, z) == RAdd(mean_growth, RMul(volatility, z))

\* np.random.seed(s), called by whoever drives the process
Seed(s) ==
  /\ ops < MaxSeedCalls
  /\ ops' = ops + 1
  /\ rng' = [seed |-> s, pos |-> 0]
  /\ UNCHANGED <<df, lib, models, forecasts, metrics, scenarios, ret, tape, run, cwd, db, collector>>

\* lines 77-81: the locals of an invocation; np.zeros of a negative
\* dimension raises ValueError.  prev holds the outcome of the run's earlier
\* invocation, if it made one.
Entered(H, S, prev) ==
  IF S < 0
  THEN [pc |-> "done", H |-> H, S |-> S, start |-> rng, prev |-> prev,
        growths |-> <<>>, err |-> "ValueError", out |-> "None"]
  ELSE [pc |-> "loop", H |-> H, S |-> S, start |-> rng, prev |-> prev,
        last_revenue |-> Revenue[Len(df)],
        mean_growth |-> calculate_volatility.mean_growth,
        volatility |-> calculate_volatility.volatility,
        sim |-> 1, year |-> 1,
        current_revenue |-> Revenue[Len(df)],
        growths |-> <<>>,
        simulations |-> Zeros(S, H)]

McEnter(r, H, S) ==
  /\ run[r].pc = "idle"
  /\ run' = [run EXCEPT ![r] = Entered(H, S, <<>>)]
  /\ UNCHANGED <<df, lib, models, forecasts, metrics, scenarios, ret, ops, rng, tape, cwd, db, collector>>

\* the caller invokes monte_carlo_simulation once more, with the same arguments
McRepeat(r) ==
  /\ run[r].pc = "done"
  /\ run[r].prev = <<>>
  /\ run' = [run EXCEPT ![r] =
       Entered(run[r].H, run[r].S,
               <<[start |-> run[r].start, err |-> run[r].err, out |-> run[r].out]>>)]
  /\ UNCHANGED <<df, lib, models, forecasts, metrics, scenarios, ret, ops, rng, tape, cwd, db, collector>>

\* lines 85-89: one draw of the shared generator, compounded and stored
McDraw(r) ==
  /\ run[r].pc = "loop"
  /\ run[r].H > 0
  /\ run[r].sim <= run[r].S
  /\ \E z \in ZSet :
       /\ rng.pos < Len(tape[rng.seed]) => z = tape[rng.seed][rng.pos + 1]
       /\ tape' = IF rng.pos < Len(tape[rng.seed]) THEN tape
                  ELSE [tape EXCEPT ![rng.seed] = Append(@, z)]
       /\ rng' = [rng EXCEPT !.pos = @ + 1]
       /\ \E growth \in {Normal(run[r].mean_growth, run[r].volatility, z)} :
          \E cur \in {RMul(run[r].current_revenue, RAdd(Num(1), growth))} :
            LET last_year == run[r].year = run[r].H
            IN  run' = [run EXCEPT
                  ![r].simulations[run[r].sim][run[r].year] = cur,
                  ![r].growths = Append(@, growth),
                  ![r].current_revenue = IF last_year THEN run[r].last_revenue ELSE cur,
                  ![r].year = IF last_year THEN 1 ELSE @ + 1,
                  ![r].sim = IF last_year THEN @ + 1 ELSE @]
  /\ UNCHANGED <<df, lib, models, forecasts, metrics, scenarios, ret, ops, cwd, db, collector>>

LoopsDone(r) == run[r].H = 0 \/ run[r].sim > run[r].S

\* lines 91-106.  Over an empty matrix (n_simulations = 0) np.percentile
\* either gives nan like np.median or raises IndexError, by numpy version.
McReturn(r) ==
  /\ run[r].pc = "loop"
  /\ LoopsDone(r)
  /\ \E emptyRaises \in BOOLEAN :
       /\ run[r].S > 0 => ~emptyRaises
       /\ run' = [run EXCEPT ![r] =
            [pc |-> "done", H |-> run[r].H, S |-> run[r].S, start |-> run[r].start,
             prev |-> run[r].prev,
             growths |-> run[r].growths,
             err |-> IF emptyRaises THEN "IndexError" ELSE NoErr,
             out |-> IF emptyRaises THEN "None"
                     ELSE IF run[r].S = 0 THEN EmptyBundle(run[r].H)
                     ELSE Bundle(run[r].simulations, run[r].H)]]
  /\ UNCHANGED <<df, lib, models, forecasts, metrics, scenarios, ret, ops, rng, tape, cwd, db, collector>>

\* what the model holds fixed while Monte Carlo invocations run
MCInit(runs) ==
  /\ df \in SeriesSet
  /\ lib = 1
  /\ models = EmptyMap
  /\ forecasts = EmptyMap
  /\ metrics = EmptyMap
  /\ scenarios = EmptyMap
  /\ ret = NoCall
  /\ ops = 0
  /\ rng = [seed |-> 0, pos |-> 0]
  /\ tape = [s \in {0} \cup Seeds |-> <<>>]
  /\ run = [r \in runs |-> Idle]
  /\ NoCollection

(* One analysis run, any arguments *)

InitMC == MCInit({1})

NextMC ==
  \/ \E s \in Seeds : Seed(s)
  \/ \E H \in Horizons, S \in (-1)..MaxSims : McEnter(1, H, S)
  \/ McDraw(1)
  \/ McReturn(1)
  \/ McRepeat(1)

SpecMC == InitMC /\ [][NextMC]_vars

(* Two analysis runs of one process, each making at most MaxConcDraws draws *)

InitConc == MCInit(Runs)

NextConc ==
  \/ \E r \in Runs, H \in 1..MaxH, S \in 1..MaxSims :
       H * S <= MaxConcDraws /\ McEnter(r, H, S)
  \/ \E r \in Runs : McDraw(r)
  \/ \E r \in Runs : McReturn(r)

SpecConc == InitConc /\ [][NextConc]_vars

---------------------------------------------------------------------------
(* RevenueForecaster.calculate_metrics called directly, on the historical  *)
(* values and a model's fitted values, both multiplied by a constant c     *)

ScaleSet == {R(1, 2), Num(1), Num(2), Num(3)}

FittedModels ==
  { "Linear Regression", "Polynomial_2", "Polynomial_3", "Exponential Smoothing",
    "Random Forest", "Gradient Boosting" }

Scale(c, s) == [i \in 1..Len(s) |-> RMul(c, s[i])]

CalculateMetrics(c, m) ==
  ops < MaxOps /\ \E s \in {calculate_metrics(FS, Scale(c, Revenue), Scale(c, LibFitted(m)), m)} :
    ForecasterCall("calculate_metrics", 0, [c |-> c, m |-> m], s)

NextMetrics == \E c \in ScaleSet, m \in FittedModels : CalculateMetrics(c, m)

SpecMetrics == Init /\ [][NextMetrics]_vars

---------------------------------------------------------------------------
(* The collector process: daily_scheduler.collect_data, or a collector    *)
(* script run again, up to MaxCollections times; one step per network or  *)
(* git exchange of collect_all                                            *)

revenue == <<df, lib, models, forecasts, metrics, scenarios, ret, ops, rng, tape, run>>

\* collect_data on a market day, or the script's main: the collector is
\* constructed (CREATE TABLE IF NOT EXISTS keeps the rows) and collect_all starts
StartCollection ==
  /\ collector.pc = "idle"
  /\ collector.runs < MaxCollections
  /\ collector' = [collector EXCEPT !.pc = "loop", !.i = 1, !.total = 0, !.trace = <<>>,
                        !.runs = @ + 1, !.op = "collect_all"]
  /\ UNCHANGED <<cwd, db, revenue>>

\* collect_data on a weekend
SkipCollection ==
  /\ collector.kind = Incremental
  /\ collector.pc = "idle"
  /\ collector.runs < MaxCollections
  /\ collector' = [collector EXCEPT !.runs = @ + 1, !.op = "skip"]
  /\ UNCHANGED <<cwd, db, revenue>>

\* one pass of the loop of collect_all
CollectSymbol ==
  /\ collector.pc = "loop"
  /\ \E response \in Responses, db_opens \in BOOLEAN :
       \E symbol \in {Enumerate(SYMBOLS)[collector.i][2]} :
         \E r \in {collect_symbol(collector.kind, db[cwd], symbol, response, db_opens)} :
           /\ db' = [db EXCEPT ![cwd] = r.table]
           /\ collector' = [collector EXCEPT
                        !.total = @ + r.records_added,
                        !.trace = Append(@, <<"collect_symbol", symbol>>),
                        !.i = @ + 1,
                        !.pc = IF collector.i < Len(SYMBOLS) THEN "loop" ELSE "export",
                        !.op = "collect_symbol",
                        !.symbol = symbol,
                        !.failed = (~db_opens \/ response.code # 200),
                        !.ret = r.records_added,
                        !.inserted = Cardinality(r.table \ db[cwd])]
  /\ UNCHANGED <<cwd, revenue>>

\* export_to_json: the snapshot is written, or an exception is printed
ExportToJson ==
  /\ collector.pc = "export"
  /\ \E written \in BOOLEAN :
       collector' = [collector EXCEPT
                 !.trace = Append(@, <<"export_to_json">>),
                 !.pc = IF collector.kind = Incremental THEN "push" ELSE "idle",
                 !.op = "export_to_json",
                 !.json = IF written THEN db[cwd] ELSE @]
  /\ UNCHANGED <<cwd, db, revenue>>

GitPushChanges ==
  /\ collector.pc = "push"
  /\ \E outcome \in GitOutcomes :
       \E r \in {git_push_changes(cwd, outcome)} :
         /\ cwd' = r.cwd
         /\ collector' = [collector EXCEPT
                      !.trace = Append(@, <<"git_push_changes">>),
                      !.pc = "idle",
                      !.op = "git_push_changes",
                      !.pushed = r.ret]
  /\ UNCHANGED <<db, revenue>>

InitStock ==
  /\ df = <<5>>
  /\ lib = 1
  /\ models = EmptyMap
  /\ forecasts = EmptyMap
  /\ metrics = EmptyMap
  /\ scenarios = EmptyMap
  /\ ret = NoCall
  /\ ops = 0
  /\ rng = "None"
  /\ tape = <<>>
  /\ run = NoRuns
  /\ cwd \in Dirs
  /\ db = [d \in Dirs |-> {}]
  /\ collector \in {[NoCollector EXCEPT !.kind = k] : k \in Kinds}

NextStock ==
  \/ StartCollection
  \/ SkipCollection
  \/ CollectSymbol
  \/ ExportToJson
  \/ GitPushChanges

SpecStock == InitStock /\ [][NextStock]_vars

---------------------------------------------------------------------------
(* Properties *)

NamesOf(models_to_use) ==
  IF models_to_use.none THEN DefaultEnsemble ELSE models_to_use.names

NoRepeats(names) == \A i, j \in 1..Len(names) : names[i] = names[j] => i = j

\* the years lastObservedYear+1 .. lastObservedYear+H, in order
ExactYears(years, H) ==
  /\ Len(years) = H
  /\ \A i \in 1..H : years[i] = FirstYear + Len(df) - 1 + i

\* C1: when ensemble_forecast is called with a non-empty list of distinct
\* names whose forecasts all exist already and it returns, the forecast it
\* returns is the one stored under 'Ensemble' and its value at each future
\* year, times the number of names, is the sum of the named forecasts' values
\* at that year (their arithmetic mean, each counted once).
C1_EnsembleIsMean ==
  [][ ( /\ ret'.op = "ensemble_forecast"
        /\ ret'.err = NoErr
        /\ NamesOf(ret'.arg) # <<>>
        /\ NoRepeats(NamesOf(ret'.arg))
        /\ \A i \in 1..Len(NamesOf(ret'.arg)) : NamesOf(ret'.arg)[i] \in DOMAIN forecasts )
      => ( /\ "Ensemble" \in DOMAIN forecasts'
           /\ forecasts'["Ensemble"] = ret'.out
           /\ Len(ret'.out.Forecast) = ret'.H
           /\ \A y \in 1..ret'.H :
                RMul(ret'.out.Forecast[y], Num(Len(NamesOf(ret'.arg))))
                  = RSum([k \in 1..Len(NamesOf(ret'.arg)) |->
                            forecasts[NamesOf(ret'.arg)[k]].Forecast[y]]) ) ]_vars

\* C1 witness: an ensemble of two different forecasts was returned for a
\* horizon of two years, by a call that found them there (it did not have to
\* run the models itself)
C1_Witness ==
  /\ ret.op = "ensemble_forecast"
  /\ ret.err = NoErr
  /\ \A i \in 1..Len(ret.log) : ret.log[i] # "run_all_models"
  /\ ret.H = 2
  /\ ~ret.arg.none
  /\ ret.arg.names = <<"Linear Regression", "Random Forest">>
  /\ {"Linear Regression", "Random Forest"} \subseteq DOMAIN forecasts
  /\ forecasts["Linear Regression"].Forecast # forecasts["Random Forest"].Forecast
  /\ ret.out.Forecast # forecasts["Linear Regression"].Forecast

\* C2: whenever ensemble_forecast is asked for a constituent that has no
\* forecast, it fails (and so stores no ensemble of the others).
C2_MissingConstituentFails ==
  ( /\ ret.op = "ensemble_forecast"
    /\ \E i \in 1..Len(NamesOf(ret.arg)) :
         /\ NamesOf(ret.arg)[i] # "Ensemble"
         /\ NamesOf(ret.arg)[i] \notin DOMAIN forecasts )
  => ret.err # NoErr

\* the methods run_all_models enters when every step is attempted
CatalogueEntries ==
  { "Linear Regression", "Polynomial_2", "Polynomial_3", "Exponential Smoothing",
    "growth_rate_forecast:cagr", "growth_rate_forecast:recent", "Random Forest",
    "Gradient Boosting", "ensemble_forecast" }

\* C3: run_all_models attempts every model of the catalogue, and the
\* ensemble, whether or not one of them raises.
C3_NotFailFast ==
  ret.op = "run_all_models"
  => \A m \in CatalogueEntries : \E i \in 1..Len(ret.log) : ret.log[i] = m

\* C4: every forecast a model call, an ensemble call or generate_scenarios
\* returns for horizon H has exactly H points, for the years
\* lastObservedYear+1, ..., lastObservedYear+H in order.
C4_HorizonPoints ==
  ret.err = NoErr =>
    /\ ret.op \in { "linear_regression_forecast", "polynomial_regression_forecast",
                    "exponential_smoothing_forecast", "random_forest_forecast",
                    "gradient_boosting_forecast", "ensemble_forecast" }
       => ExactYears(ret.out.Year, ret.H) /\ Len(ret.out.Forecast) = ret.H
    /\ ret.op = "growth_rate_forecast"
       => ExactYears(ret.out[1].Year, ret.H) /\ Len(ret.out[1].Forecast) = ret.H
    /\ ret.op = "generate_scenarios"
       => /\ DOMAIN ret.out = {"Bull", "Base", "Bear"}
          /\ \A n \in DOMAIN ret.out :
               ExactYears(ret.out[n].years, ret.H) /\ Len(ret.out[n].forecast) = ret.H

\* C4 witness: an ensemble was returned for two years over forecasts that
\* an earlier call had produced for two years
C4_Witness ==
  /\ ret.op = "ensemble_forecast"
  /\ ret.err = NoErr
  /\ ret.H = 2
  /\ ops = 2
  /\ Len(ret.out.Forecast) = 2
  /\ ret.out.Year = <<FirstYear + Len(df), FirstYear + Len(df) + 1>>

\* C5: with horizon 0 the growth-rate forecasts (of a known method),
\* generate_scenarios and get_summary, on a series of at least 2
\* observations, raise no error.
C5_ZeroHorizonNoError ==
  ( /\ ret.H = 0
    /\ Len(df) >= 2
    /\ \/ ret.op \in {"generate_scenarios", "get_summary"}
       \/ ret.op = "growth_rate_forecast" /\ ret.arg \in {"cagr", "recent"} )
  => ret.err = NoErr

Bands(out) ==
  [p10 |-> out.p10, p25 |-> out.p25, median |-> out.median,
   p75 |-> out.p75, p90 |-> out.p90, mean |-> out.mean]

\* C6: two invocations of monte_carlo_simulation on the same series, with
\* the same horizon and simulation count, under the same seed given to the
\* generator, return the same bands and mean.
C6_SeedDeterminism ==
  \A r \in DOMAIN run :
    ( /\ run[r].pc = "done"
      /\ run[r].prev # <<>>
      /\ run[r].err = NoErr
      /\ run[r].prev[1].err = NoErr
      /\ run[r].start.seed \in Seeds
      /\ run[r].prev[1].start.seed = run[r].start.seed )
    => Bands(run[r].out) = Bands(run[r].prev[1].out)

\* what the invocation of run r returns when no other run draws from the
\* generator: its S * H draws are consecutive on the stream, from the
\* position the generator had when the invocation began
AloneStream(r) ==
  SubSeq(tape[run[r].start.seed], run[r].start.pos + 1,
         run[r].start.pos + run[r].S * run[r].H)

AloneKnown(r) ==
  Len(tape[run[r].start.seed]) >= run[r].start.pos + run[r].S * run[r].H

Alone(r) ==
  LET H == run[r].H
      vol == calculate_volatility
      z == AloneStream(r)
      sims == [i \in 1..run[r].S |->
                 CompoundPath(Revenue[Len(df)],
                   [y \in 1..H |-> Normal(vol.mean_growth, vol.volatility,
                                          z[(i - 1) * H + y])])]
  IN  IF run[r].S = 0 THEN EmptyBundle(H) ELSE Bundle(sims, H)

\* C7: the result a run obtains is the one it obtains alone, whatever the
\* other run of the process does meanwhile.
C7_RunsIndependent ==
  \A r \in DOMAIN run :
    (run[r].pc = "done" /\ run[r].err = NoErr /\ AloneKnown(r))
    => Bands(run[r].out) = Bands(Alone(r))

\* C8: for a series of at least 2 observations and at least one simulation,
\* the returned bands are ordered at every future year.
C8_BandsMonotone ==
  \A r \in DOMAIN run :
    (run[r].pc = "done" /\ run[r].err = NoErr /\ run[r].S >= 1 /\ Len(df) >= 2)
    => \A y \in 1..run[r].H :
         /\ RLe(run[r].out.p10[y], run[r].out.p25[y])
         /\ RLe(run[r].out.p25[y], run[r].out.median[y])
         /\ RLe(run[r].out.median[y], run[r].out.p75[y])
         /\ RLe(run[r].out.p75[y], run[r].out.p90[y])

\* last * (1 + g[1]) * ... * (1 + g[y])
RECURSIVE Compounded(_, _, _)
Compounded(last, g, y) ==
  IF y = 0 THEN last ELSE RMul(Compounded(last, g, y - 1), RAdd(Num(1), g[y]))

\* C9: with one simulation the result holds the single path compounded from
\* the last historical value by the growths drawn, year after year, and its
\* p10, p25, median, p75, p90 and mean at each year are that path's value.
C9_SinglePath ==
  \A r \in DOMAIN run :
    (run[r].pc = "done" /\ run[r].err = NoErr /\ run[r].S = 1)
    => /\ Len(run[r].growths) = run[r].H
       /\ \A y \in 1..run[r].H :
            LET v == Compounded(Num(df[Len(df)]), run[r].growths, y)
            IN  /\ run[r].out.all_simulations[1][y] = v
                /\ run[r].out.p10[y] = v
                /\ run[r].out.p25[y] = v
                /\ run[r].out.median[y] = v
                /\ run[r].out.p75[y] = v
                /\ run[r].out.p90[y] = v
                /\ run[r].out.mean[y] = v

\* C9 witness: one simulation over two years returned a path that two
\* different growths moved
C9_Witness ==
  \E r \in DOMAIN run :
    /\ run[r].pc = "done"
    /\ run[r].err = NoErr
    /\ run[r].S = 1
    /\ run[r].H = 2
    /\ run[r].growths[1] # run[r].growths[2]
    /\ ~IsNaN(run[r].out.median[2])
    /\ run[r].out.median[2] # run[r].out.median[1]

\* C10: an invocation with a simulation count below 1 ends in an error and
\* returns no bundle.
C10_RejectsNoSimulation ==
  \A r \in DOMAIN run :
    (run[r].pc = "done" /\ run[r].S < 1) => run[r].err # NoErr

\* C11: an invocation with at least one simulation and one year ends in an
\* error when the series has fewer than 2 observations, and otherwise
\* returns bands and a mean that are defined (no NaN) at every future year.
C11_InsufficientData ==
  \A r \in DOMAIN run :
    (run[r].pc = "done" /\ run[r].S >= 1 /\ run[r].H >= 1)
    => /\ Len(df) < 2 => run[r].err # NoErr
       /\ Len(df) >= 2 =>
            /\ run[r].err = NoErr
            /\ \A y \in 1..run[r].H :
                 /\ ~IsNaN(run[r].out.p10[y])
                 /\ ~IsNaN(run[r].out.p25[y])
                 /\ ~IsNaN(run[r].out.median[y])
                 /\ ~IsNaN(run[r].out.p75[y])
                 /\ ~IsNaN(run[r].out.p90[y])
                 /\ ~IsNaN(run[r].out.mean[y])

\* the mean of all year-over-year changes of the series, and the mean of
\* the changes among its final 3 observations, straight from the series
MeanGrowthOf(s) ==
  RDiv(RSum([i \in 1..(Len(s) - 1) |-> RSub(R(s[i + 1], s[i]), Num(1))]),
       Num(Len(s) - 1))

RecentGrowthOf(s) ==
  IF Len(s) <= 3 THEN MeanGrowthOf(s)
  ELSE MeanGrowthOf(SubSeq(s, Len(s) - 2, Len(s)))

\* C12: whenever generate_scenarios returns and recentGrowth > meanGrowth,
\* the Bull growth rate is strictly greater than the Base growth rate.
C12_BullAboveBase ==
  ( /\ ret.op = "generate_scenarios"
    /\ ret.err = NoErr
    /\ RLt(MeanGrowthOf(df), RecentGrowthOf(df)) )
  => RLt(ret.out["Base"].growth_rate, ret.out["Bull"].growth_rate)

\* C12 as amended: whenever generate_scenarios returns and recentGrowth is
\* greater than 24/17 of meanGrowth (1.2 / 0.85; always the case when
\* recentGrowth > meanGrowth and meanGrowth <= 0), the Bull growth rate is
\* strictly greater than the Base growth rate.
C12_BullAboveBaseAmended ==
  ( /\ ret.op = "generate_scenarios"
    /\ ret.err = NoErr
    /\ RLt(MeanGrowthOf(df), RecentGrowthOf(df))
    /\ RLt(RMul(R(24, 17), MeanGrowthOf(df)), RecentGrowthOf(df)) )
  => RLt(ret.out["Base"].growth_rate, ret.out["Bull"].growth_rate)

\* C12 witness: scenarios were returned for a series whose mean growth is
\* positive and whose recent growth is above 24/17 of it
C12_Witness ==
  /\ ret.op = "generate_scenarios"
  /\ ret.err = NoErr
  /\ ret.H >= 1
  /\ RLt(Num(0), MeanGrowthOf(df))
  /\ RLt(RMul(R(24, 17), MeanGrowthOf(df)), RecentGrowthOf(df))
  /\ RLt(ret.out["Base"].growth_rate, ret.out["Bull"].growth_rate)

\* the rate the scenario of a name is to have on series s
RateOf(name, s) ==
  CASE name = "Bull" -> RMul(R(85, 100), RecentGrowthOf(s))
    [] name = "Base" -> RMul(R(12, 10), MeanGrowthOf(s))
    [] name = "Bear" -> RMul(R(6, 10), MeanGrowthOf(s))

\* C13: on a series of at least 3 observations generate_scenarios returns
\* (and stores) exactly the scenarios Bull, Base and Bear, with the growth
\* rates 0.85 * recentGrowth, 1.2 * meanGrowth and 0.6 * meanGrowth, and the
\* i-th point of each is lastValue * (1 + rate)^i, for i = 1..H.
C13_ScenarioRates ==
  (ret.op = "generate_scenarios" /\ ret.err = NoErr /\ Len(df) >= 3)
  => /\ DOMAIN ret.out = {"Bull", "Base", "Bear"}
     /\ scenarios = ret.out
     /\ \A n \in {"Bull", "Base", "Bear"} :
          /\ ret.out[n].growth_rate = RateOf(n, df)
          /\ Len(ret.out[n].forecast) = ret.H
          /\ \A i \in 1..ret.H :
               ret.out[n].forecast[i]
                 = RMul(Num(df[Len(df)]), RPow(RAdd(Num(1), RateOf(n, df)), i))

\* C13 witness: scenarios over two years were returned for a series whose
\* recent growth differs from its mean growth
C13_Witness ==
  /\ ret.op = "generate_scenarios"
  /\ ret.err = NoErr
  /\ ret.H = 2
  /\ Len(df) >= 4
  /\ RecentGrowthOf(df) # MeanGrowthOf(df)
  /\ ret.out["Bull"].forecast[2] # ret.out["Bull"].forecast[1]
  /\ ret.out["Bull"].forecast[2] # ret.out["Base"].forecast[2]

\* C14: generate_scenarios on a series of fewer than 4 observations ends in
\* an error (and so returns no scenarios).
C14_ScenariosNeedFour ==
  (ret.op = "generate_scenarios" /\ Len(df) < 4) => ret.err # NoErr

\* C15: on a series of n >= 2 observations and for H >= 1,
\* growth_rate_forecast(method='cagr') returns the growth rate g with
\* (1 + g)^(n-1) = lastValue / firstValue, 1 + g >= 0, and the forecast
\* whose i-th point is lastValue * (1 + g)^i for i = 1..H.
C15_CagrForecast ==
  ( /\ ret.op = "growth_rate_forecast"
    /\ ret.arg = "cagr"
    /\ Len(df) >= 2
    /\ ret.H >= 1 )
  => /\ ret.err = NoErr
     /\ RLe(Num(0), RAdd(Num(1), ret.out[2]))
     /\ RPow(RAdd(Num(1), ret.out[2]), Len(df) - 1) = R(df[Len(df)], df[1])
     /\ Len(ret.out[1].Forecast) = ret.H
     /\ \A i \in 1..ret.H :
          ret.out[1].Forecast[i]
            = Compounded(Num(df[Len(df)]), [y \in 1..ret.H |-> ret.out[2]], i)
     /\ \E name \in DOMAIN forecasts : forecasts[name] = ret.out[1]

\* C15 witness: a CAGR forecast over two years was returned for a series of
\* more than 2 observations that grew or shrank
C15_Witness ==
  /\ ret.op = "growth_rate_forecast"
  /\ ret.arg = "cagr"
  /\ ret.err = NoErr
  /\ ret.H = 2
  /\ Len(df) >= 3
  /\ ret.out[2] # Num(0)
  /\ ret.out[1].Forecast[2] # ret.out[1].Forecast[1]

\* the Python exceptions that report a bad argument
ArgumentErrors == {"ValueError", "TypeError", "KeyError"}

\* C16: growth_rate_forecast with a method other than 'cagr' and 'recent'
\* ends in an error that reports the bad argument.
C16_UnknownMethodRejected ==
  (ret.op = "growth_rate_forecast" /\ ret.arg \notin {"cagr", "recent"})
  => ret.err \in ArgumentErrors

\* C17: get_metrics_summary raises nothing; it returns one row per recorded
\* metrics record, each once, by ascending MAPE (no row without a record:
\* an empty result when nothing was recorded), and it leaves the models,
\* forecasts and metrics maps as they were.
C17_MetricsSummary ==
  [][ ret'.op = "get_metrics_summary"
      => /\ ret'.err = NoErr
         /\ Len(ret'.out) = Cardinality(DOMAIN metrics)
         /\ \A name \in DOMAIN metrics : \E i \in 1..Len(ret'.out) : ret'.out[i] = name
         /\ \A i, j \in 1..Len(ret'.out) :
              i < j => RLe(metrics[ret'.out[i]].MAPE, metrics[ret'.out[j]].MAPE)
         /\ UNCHANGED <<models, forecasts, metrics>> ]_vars

\* C17 witness: a summary of several records with different MAPE was returned
C17_Witness ==
  /\ ret.op = "get_metrics_summary"
  /\ ret.err = NoErr
  /\ Len(ret.out) >= 3
  /\ RLt(metrics[ret.out[1]].MAPE, metrics[ret.out[Len(ret.out)]].MAPE)

\* C18: what a call returned reads the same after the next call, whatever
\* that call is.
C18_ReturnedNotMutated ==
  [][ (ret.op # "none" /\ ret.err = NoErr) => SeenIn(ret, scenarios') = ret.out ]_vars

\* every entry of map old is an entry of map new
Kept(old, new) ==
  \A k \in DOMAIN old : k \in DOMAIN new /\ new[k] = old[k]

\* C19: no step removes a key of the models, forecasts or metrics map or
\* replaces an entry by a different value.
C19_MapsAppendOnly ==
  [][ /\ Kept(models, models')
      /\ Kept(forecasts, forecasts')
      /\ Kept(metrics, metrics') ]_vars

\* the names under which the fitted models of the catalogue store forecasts
KnownModels ==
  { "Linear Regression", "Polynomial_2", "Polynomial_3", "Exponential Smoothing",
    "Random Forest", "Gradient Boosting" }

\* C20: whenever ensemble_forecast has computed its average, every model of
\* the catalogue it was asked to use has a forecast, whatever the forecaster
\* held when it was called.
C20_ConstituentsProduced ==
  (ret.op = "ensemble_forecast" /\ ret.err = NoErr)
  => \A i \in 1..Len(NamesOf(ret.arg)) :
       NamesOf(ret.arg)[i] \in KnownModels => NamesOf(ret.arg)[i] \in DOMAIN forecasts

\* C21: the MAPE calculate_metrics records and returns for the values and
\* a model's fitted values, both multiplied by a positive constant, is the
\* MAPE of the values and fitted values themselves.
C21_MapeScaleInvariant ==
  ret.op = "calculate_metrics"
  => /\ ret.err = NoErr
     /\ ret.out.MAPE = MetricsOf(Revenue, LibFitted(ret.arg.m)).MAPE
     /\ metrics[ret.arg.m] = ret.out

\* C21 witness: metrics were returned for values multiplied by 3, with a
\* MAPE above 0 and a mean absolute error 3 times that of the values
C21_Witness ==
  /\ ret.op = "calculate_metrics"
  /\ ret.arg.c = Num(3)
  /\ RLt(Num(0), ret.out.MAPE)
  /\ ret.out.MAE = RMul(Num(3), MetricsOf(Revenue, LibFitted(ret.arg.m)).MAE)

\* C22: ensemble_forecast for a horizon H >= 1 over constituents that
\* earlier calls have all stored a forecast for, of whatever horizon, raises
\* nothing and returns and stores a forecast of H points.
C22_EnsembleAnyStoredHorizon ==
  ( /\ ret.op = "ensemble_forecast"
    /\ ret.H >= 1
    /\ \A i \in 1..Len(ret.log) : ret.log[i] # "run_all_models"
    /\ NamesOf(ret.arg) # <<>>
    /\ \A i \in 1..Len(NamesOf(ret.arg)) : NamesOf(ret.arg)[i] \in DOMAIN forecasts )
  => /\ ret.err = NoErr
     /\ Len(ret.out.Forecast) = ret.H
     /\ forecasts["Ensemble"] = ret.out

\* C23: after run_all_models has returned, every key of the metrics map is
\* a key of the forecasts map.
C23_MetricsJoinForecasts ==
  (ret.op = "run_all_models" /\ ret.err = NoErr)
  => DOMAIN metrics \subseteq DOMAIN forecasts

\* the number of times method name was entered in the call trace log
Entries(log, name) == Cardinality({i \in 1..Len(log) : log[i] = name})

\* C24: a call of ensemble_forecast on a forecaster without any forecast
\* ends; it enters run_all_models exactly once and ensemble_forecast no more
\* than twice (the call itself and the one run_all_models makes), and when
\* it returns the forecasts map has an 'Ensemble' entry.
C24_EnsembleTerminates ==
  [][ (ret'.op = "ensemble_forecast" /\ forecasts = EmptyMap)
      => /\ Entries(ret'.log, "run_all_models") = 1
         /\ Entries(ret'.log, "ensemble_forecast") <= 2
         /\ ret'.err = NoErr => "Ensemble" \in DOMAIN forecasts' ]_vars

\* C24 witness: an ensemble_forecast that had to run the models itself has
\* returned, having entered ensemble_forecast twice
C24_Witness ==
  /\ ret.op = "ensemble_forecast"
  /\ ret.err = NoErr
  /\ ret.H >= 1
  /\ Entries(ret.log, "run_all_models") = 1
  /\ Entries(ret.log, "ensemble_forecast") = 2
  /\ "Ensemble" \in DOMAIN forecasts

\* C25: the summary get_summary returns for horizon H >= 1 has, for each
\* scenario, the label 'HY Revenue' and under it the scenario's revenue at
\* the H-th future year, lastValue * (1 + rate)^H.
C25_SummaryAtHorizon ==
  (ret.op = "get_summary" /\ ret.err = NoErr /\ ret.H >= 1)
  => /\ Len(ret.out) = 3
     /\ \A i \in 1..3 :
          /\ ret.out[i].Label = ToString(ret.H) \o "Y Revenue"
          /\ ret.out[i].Revenue
               = "$" \o Fmt2(RMul(Num(df[Len(df)]),
                                  RPow(RAdd(Num(1), RateOf(ret.out[i].Scenario, df)), ret.H)))
                     \o "B"

\* C26: whenever generate_scenarios returns for a series of at least four
\* points, the Bear growth rate is less than or equal to the Base growth
\* rate, whatever the sign of the mean year-over-year growth.
C26_BearBelowBase ==
  (ret.op = "generate_scenarios" /\ ret.err = NoErr /\ Len(df) >= 4)
  => RLe(ret.out["Bear"].growth_rate, ret.out["Base"].growth_rate)

\* C26 as amended: whenever generate_scenarios returns for a series whose
\* mean year-over-year growth is not negative, the Bear growth rate is less
\* than or equal to the Base growth rate.
C26_BearBelowBaseAmended ==
  ( /\ ret.op = "generate_scenarios"
    /\ ret.err = NoErr
    /\ RLe(Num(0), MeanGrowthOf(df)) )
  => RLe(ret.out["Bear"].growth_rate, ret.out["Base"].growth_rate)

\* C26 witness: scenarios were returned for a series of positive mean
\* growth, with Bear strictly below Base
C26_Witness ==
  /\ ret.op = "generate_scenarios"
  /\ ret.err = NoErr
  /\ ret.H >= 1
  /\ RLt(Num(0), MeanGrowthOf(df))
  /\ RLt(ret.out["Bear"].growth_rate, ret.out["Base"].growth_rate)
  /\ RLt(ret.out["Bear"].forecast[1], ret.out["Base"].forecast[1])

\* C27: IncrementalStockCollector.git_push_changes leaves the working
\* directory equal to its value at entry, whatever path it returns by.
C27_PushKeepsDirectory ==
  [][ (collector.pc = "push" /\ collector'.op = "git_push_changes") => cwd' = cwd ]_vars

\* C28: in both collectors, the number collect_symbol returns is the number
\* of rows that call inserted into stock_data: a bar whose row is already
\* stored is not counted.
C28_ReturnsRowsInserted ==
  collector.op = "collect_symbol" => collector.ret = collector.inserted

\* the calls one collect_all of IncrementalStockCollector makes, in order
CollectAllCalls ==
  [i \in 1..Len(SYMBOLS) |-> <<"collect_symbol", SYMBOLS[i]>>]
    \o << <<"export_to_json">>, <<"git_push_changes">> >>

IsPrefix(s, t) == Len(s) <= Len(t) /\ s = SubSeq(t, 1, Len(s))

\* C29: a collect_all of IncrementalStockCollector calls collect_symbol on
\* every symbol of config.SYMBOLS once and in order, then export_to_json
\* once, then git_push_changes once; a symbol whose fetch or store failed
\* returns 0 and the loop goes on; collect_all returns only after all of them.
C29_CollectAllOrder ==
  collector.kind = Incremental
  => /\ IsPrefix(collector.trace, CollectAllCalls)
     /\ (collector.op = "collect_symbol" /\ collector.failed)
          => (collector.ret = 0 /\ collector.pc # "idle")
     /\ (collector.pc = "idle" /\ collector.op \notin {"none", "skip"})
          => collector.trace = CollectAllCalls

\* C29 witness: a collect_all whose first symbol failed and whose last
\* symbol added rows has returned, in the second collection of the process
C29_Witness ==
  /\ collector.kind = Incremental
  /\ collector.runs = 2
  /\ collector.pc = "idle"
  /\ collector.op = "git_push_changes"
  /\ collector.failed = FALSE
  /\ collector.total >= 1
  /\ collector.trace = CollectAllCalls
  /\ \A t \in {1, 2} : <<SYMBOLS[1], t>> \notin db[cwd]
  /\ \E t \in {1, 2} : <<SYMBOLS[Len(SYMBOLS)], t>> \in db[cwd]

AnalyzerOps == {"generate_scenarios", "sensitivity_analysis", "get_summary"}

============================================================================
